---- MODULE Spec2Model ----
(***************************************************************************)
(* obsidian-random-wikipedia: the retry-driven acquisition loop            *)
(* (fetchAndProcessRandomWikipediaArticle), the heading extractor          *)
(* (parseWikipediaHtml, getProcessedDisallowedHeaders), the renderer       *)
(* (formatMarkdown), the settings tab's onChange handlers and the command  *)
(* handler that stores the note (handleInsertArticle).                     *)
(*                                                                         *)
(* The plugin is src/unnamed/part_000 from line 59 on; src/main.ts is an    *)
(* earlier revision of the same class, without the heading extractor.      *)
(*                                                                         *)
(* Strings are sequences of one-character strings ("a", "A", " ", ",").    *)
(* A literal of the source that no operation looks inside is one token.    *)
(***************************************************************************)
EXTENDS Integers, Sequences, FiniteSets, TLC

VARIABLES settings, now, run, changes, call, vault

vars == <<settings, now, run, changes, call, vault>>

(***************************************************************************)
(* Bounds of the model.                                                    *)
(***************************************************************************)
\* largest values typed into the "Maximum Retries" and "Minimum Headers" fields
MaxRetriesInput == 2
MaxMinHeadersInput == 1
\* how many times the settings tab's fields are edited in one behaviour
MaxSettingChanges == 1
\* clock ticks in one behaviour, and ticks per calendar day
MaxNow == 1
TicksPerDay == 1
\* heading elements of a document handed to parseWikipediaHtml on its own
MaxHeadings == 3
\* length of the disallowedHeaders setting it reads
MaxCfgLen == 2
\* headers of a candidate handed to formatMarkdown on its own
MaxFmtHeaders == 2

(***************************************************************************)
(* JavaScript string operations used by the source.                        *)
(***************************************************************************)
IsSpace(c) == c \in {" ", "\n"}

\* String.prototype.toLowerCase, on the model's alphabet
LowerChar(c) == CASE c = "A" -> "a" [] c = "B" -> "b" [] OTHER -> c

toLowerCase(s) == [i \in 1..Len(s) |-> LowerChar(s[i])]

RECURSIVE TrimStart(_)
TrimStart(s) ==
    IF s # <<>> /\ IsSpace(Head(s)) THEN TrimStart(Tail(s)) ELSE s

RECURSIVE TrimEnd(_)
TrimEnd(s) ==
    IF s # <<>> /\ IsSpace(s[Len(s)]) THEN TrimEnd(SubSeq(s, 1, Len(s) - 1)) ELSE s

\* String.prototype.trim
trim(s) == TrimEnd(TrimStart(s))

\* String.prototype.split(','): always at least one piece, empty pieces kept
RECURSIVE split(_, _)
split(s, sep) ==
    IF \E i \in 1..Len(s) : s[i] = sep
    THEN LET i == CHOOSE j \in 1..Len(s) : s[j] = sep /\ \A k \in 1..(j - 1) : s[k] # sep
         IN  <<SubSeq(s, 1, i - 1)>> \o split(SubSeq(s, i + 1, Len(s)), sep)
    ELSE <<s>>

\* Array.prototype.includes
includes(arr, x) == \E i \in 1..Len(arr) : arr[i] = x

\* '#'.repeat(n)
RECURSIVE repeat(_, _)
repeat(c, n) == IF n <= 0 THEN <<>> ELSE <<c>> \o repeat(c, n - 1)

\* concatenation of a sequence of strings
RECURSIVE Concat(_)
Concat(ss) == IF ss = <<>> THEN <<>> ELSE Head(ss) \o Concat(Tail(ss))

(***************************************************************************)
(* getProcessedDisallowedHeaders: split on ',', trim, drop empty entries,  *)
(* lower-case.                                                             *)
(***************************************************************************)
NonEmpty(h) == Len(h) > 0

getProcessedDisallowedHeadersKeepEmpty(disallowedHeaders) ==
    LET pieces == split(disallowedHeaders, ",")
    IN  [i \in 1..Len(pieces) |-> toLowerCase(trim(pieces[i]))]

getProcessedDisallowedHeaders(disallowedHeaders) ==
    LET pieces == split(disallowedHeaders, ",")
        trimmed == [i \in 1..Len(pieces) |-> trim(pieces[i])]
        kept == SelectSeq(trimmed, NonEmpty)
    IN  [i \in 1..Len(kept) |-> toLowerCase(kept[i])]

(***************************************************************************)
(* The document DOMParser builds from the markup.  Only what               *)
(* parseWikipediaHtml reads is kept: whether a .mw-parser-output element   *)
(* exists, the h2/h3/h4 elements inside it and the h2/h3/h4 elements of    *)
(* the whole document when it does not exist, both in document order.  A   *)
(* heading element is its tag name and its child nodes; a child node is a  *)
(* text run or a .mw-editsection span.  The empty string parses to the     *)
(* document without headings.                                              *)
(***************************************************************************)
TextNode(s) == [edit |-> FALSE, chars |-> s]
EditNode == [edit |-> TRUE, chars |-> <<"[", "edit", "]">>]
HeadingEl(tag, nodes) == [tagName |-> tag, nodes |-> nodes]
Html(has, inside, all) == [hasParserOutput |-> has, inside |-> inside, all |-> all]
EmptyHtml == Html(FALSE, <<>>, <<>>)

\* Node.textContent of a heading element
textContent(nodes) == Concat([i \in 1..Len(nodes) |-> nodes[i].chars])

\* headingEl.querySelector('.mw-editsection') followed by editSpan.remove():
\* the first edit span leaves the element
RemoveFirstEdit(nodes) ==
    IF \E i \in 1..Len(nodes) : nodes[i].edit
    THEN LET i == CHOOSE j \in 1..Len(nodes) :
                      nodes[j].edit /\ \A k \in 1..(j - 1) : ~nodes[k].edit
         IN  SubSeq(nodes, 1, i - 1) \o SubSeq(nodes, i + 1, Len(nodes))
    ELSE nodes

Digits == {"0", "1", "2", "3", "4", "5", "6", "7", "8", "9"}

DigitValue(c) ==
    CASE c = "0" -> 0 [] c = "1" -> 1 [] c = "2" -> 2 [] c = "3" -> 3 [] c = "4" -> 4
      [] c = "5" -> 5 [] c = "6" -> 6 [] c = "7" -> 7 [] c = "8" -> 8 [] c = "9" -> 9

\* the digits a string starts with
RECURSIVE LeadingDigits(_)
LeadingDigits(s) ==
    IF s # <<>> /\ Head(s) \in Digits THEN <<Head(s)>> \o LeadingDigits(Tail(s)) ELSE <<>>

RECURSIVE DecimalValue(_, _)
DecimalValue(acc, ds) ==
    IF ds = <<>> THEN acc ELSE DecimalValue(acc * 10 + DigitValue(Head(ds)), Tail(ds))

\* parseInt: <<n>> for the number the string starts with, <<>> for NaN
parseInt(s) ==
    LET ds == LeadingDigits(TrimStart(s))
    IN  IF ds = <<>> THEN <<>> ELSE <<DecimalValue(0, ds)>>

isNaN(parsedValue) == parsedValue = <<>>

\* parseInt(headingEl.tagName.substring(1)); the selector admits h2, h3, h4 only
HeadingLevel(tagName) == parseInt(Tail(tagName))[1]

\* lines 251-257: the text recorded for one heading element
HeadingText(el) == trim(textContent(RemoveFirstEdit(el.nodes)))

\* parserOutputDiv ? parserOutputDiv.querySelectorAll(..) : doc.querySelectorAll(..)
headingElements(doc) == IF doc.hasParserOutput THEN doc.inside ELSE doc.all

IsDuplicateIgnoreCase(headers, level, text) ==
    \E i \in 1..Len(headers) :
        toLowerCase(headers[i].text) = toLowerCase(text) /\ headers[i].level = level

\* headers.some(h => h.text === text && h.level === level)
IsDuplicate(headers, level, text) ==
    \E i \in 1..Len(headers) : headers[i].text = text /\ headers[i].level = level

\* processedDisallowedHeaders.includes(text.toLowerCase())
IsDisallowedCaseSensitive(processed, text) == includes(processed, text)

IsDisallowed(processed, text) == includes(processed, toLowerCase(text))

\* the body of headingElements.forEach, one element
VisitHeading(headers, el, processed) ==
    LET level == HeadingLevel(el.tagName)
        text == HeadingText(el)
    IN  IF IsDisallowed(processed, text) THEN headers
        ELSE IF ~IsDuplicate(headers, level, text)
             THEN Append(headers, [level |-> level, text |-> text])
             ELSE headers

RECURSIVE ForEachHeading(_, _, _)
ForEachHeading(headers, els, processed) ==
    IF els = <<>> THEN headers
    ELSE ForEachHeading(VisitHeading(headers, Head(els), processed), Tail(els), processed)

parseWikipediaHtml(htmlContent, disallowedHeaders) ==
    ForEachHeading(<<>>, headingElements(htmlContent),
                   getProcessedDisallowedHeaders(disallowedHeaders))

(***************************************************************************)
(* The clock: now counts ticks; window.moment().format(..) renders it.     *)
(***************************************************************************)
\* format("YYYY-MM-DD"): the calendar day of the instant
FormatDate(t) == ToString(t \div TicksPerDay)

\* format("YYYY-MM-DD HH:mm:ss"): the day, a blank, the time within the day
FormatDateTime(t) == <<ToString(t \div TicksPerDay), " ", ToString(t % TicksPerDay)>>

(***************************************************************************)
(* encodeURIComponent and the article link (line 185).                     *)
(***************************************************************************)
EncodeChar(c) ==
    CASE c = " " -> <<"%", "2", "0">>
      [] c = "#" -> <<"%", "2", "3">>
      [] OTHER -> <<c>>

encodeURIComponent(s) == Concat([i \in 1..Len(s) |-> EncodeChar(s[i])])

ArticleLink(title) == <<"https://en.wikipedia.org/wiki/">> \o encodeURIComponent(title)

(***************************************************************************)
(* formatMarkdown.  The result is the note's text; "#", " " and "\n" are   *)
(* always tokens of their own, every other literal of the template is one  *)
(* token.                                                                  *)
(***************************************************************************)
Placeholder == "No significant sections found for this article."

HeaderLineFixedLevel(header) ==
    <<"#", "#", " ">> \o header.text \o <<"\n", "\n">>

\* the body of headers.forEach: one heading line and a blank line
HeaderLine(header) ==
    repeat("#", header.level) \o <<" ">> \o header.text \o <<"\n", "\n">>

SectionsBlock(headers) ==
    <<"\n", "#", "#", " ", "Sections:", "\n">>
        \o Concat([i \in 1..Len(headers) |-> HeaderLine(headers[i])])

PlaceholderBlock == <<"\n", Placeholder, "\n", "\n">>

HeadersMarkdownAlwaysSections(headers) == SectionsBlock(headers)

\* lines 278-288
HeadersMarkdown(headers) ==
    IF Len(headers) > 0 THEN SectionsBlock(headers) ELSE PlaceholderBlock

\* lines 274-301; t is the instant window.moment() reads
formatMarkdown(articleData, t) ==
    <<"---", "\n", "tags: wikipedia", "\n", "---", "\n", "\n">>
        \o FormatDateTime(t)
        \o <<"\n", "**Related Topics**:", "\n", "**Link**:", " ">>
        \o articleData.link
        \o <<"\n", "#", " ">> \o articleData.title \o <<" ", "#", "wikipedia", "\n">>
        \o HeadersMarkdown(articleData.headers)
        \o <<"\n">>

(***************************************************************************)
(* The plugin.  settings is this.settings; run[r] holds the locals of the  *)
(* call of fetchAndProcessRandomWikipediaArticle made from entry point r   *)
(* (the command callback, the ribbon icon), its position, what it          *)
(* returned, and a log of what it did to its collaborators (notices shown, *)
(* network calls issued).                                                  *)
(***************************************************************************)
Runs == {"command", "ribbon"}

\* DEFAULT_SETTINGS.minHeaders and DEFAULT_SETTINGS.maxRetries
DefaultMinHeaders == 3
DefaultMaxRetries == 15

\* the settings record before loadSettings has filled it
BlankSettings ==
    [minHeaders |-> 0, maxRetries |-> 0, disallowedHeaders |-> <<>>, noteFolder |-> <<>>]

\* article titles the random-title endpoint answers with
Titles == {<<"a">>, <<"A", " ", "b">>}

\* markup the parse endpoint answers with
DocTwo ==
    Html(TRUE,
         <<HeadingEl(<<"H", "2">>, <<TextNode(<<"a">>)>>),
           HeadingEl(<<"H", "2">>, <<TextNode(<<" ", "b">>), EditNode>>)>>,
         <<>>)
DocOne == Html(FALSE, <<>>, <<HeadingEl(<<"H", "3">>, <<TextNode(<<"A">>)>>)>>)
Markups == {EmptyHtml, DocOne, DocTwo}

\* values of the "Disallowed Headers" text area
DisallowedChoices == {<<>>, <<" ", "B", ",">>}
\* values of the "Note Folder" field
FolderChoices == {<<" ", "n">>}
\* values typed into the two numeric fields; "x" is not a number
RetriesInputs == {<<ToString(n)>> : n \in 0..MaxRetriesInput}
MinHeadersInputs == {<<ToString(n)>> : n \in 0..MaxMinHeadersInput} \cup {<<"x">>}

\* bodies randomTitleResponse.json() resolves to
TitleBodies == {[items |-> <<>>]} \cup {[items |-> <<[title |-> t]>>] : t \in Titles}
\* bodies apiHtmlResponse.json() resolves to
ApiDatas ==
    {[parse |-> <<>>], [parse |-> <<[text |-> <<>>]>>]}
        \cup {[parse |-> <<[text |-> <<h>>]>>] : h \in Markups}

\* a body without parse, or whose parse.text is absent or empty
HasNoText(apiData) == apiData.parse = <<>> \/ apiData.parse[1].text = <<>>

TextOrEmptyElseLastDoc(apiData) ==
    IF apiData.parse = <<>> THEN DocTwo
    ELSE IF apiData.parse[1].text = <<>> THEN DocTwo
    ELSE apiData.parse[1].text[1]

\* apiData?.parse?.text || ''
TextOrEmpty(apiData) ==
    IF apiData.parse = <<>> THEN EmptyHtml
    ELSE IF apiData.parse[1].text = <<>> THEN EmptyHtml
    ELSE apiData.parse[1].text[1]

NoCall == [fn |-> "none"]

\* the vault: its folders, its files (path and content), the files open in a tab
EmptyVault == [folders |-> {}, files |-> {}, open |-> {}]

InitRun ==
    [pc |-> "idle",
     \* lines 167-172
     foundSuitableArticle |-> FALSE, retries |-> 0, articleTitle |-> <<>>,
     articleLink |-> <<>>, articleHtml |-> EmptyHtml, parsedHeaders |-> <<>>,
     \* what the call returned: "pending", "candidate", "null" or "raised"
     outcome |-> "pending", articleData |-> <<>>,
     \* log: notices shown, network calls issued and outstanding, timers started
     attemptNotices |-> 0, errNotices |-> 0, exhaustedNotices |-> 0,
     titleCalls |-> 0, htmlCalls |-> 0, requestedPage |-> <<>>, inFlight |-> 0,
     delays |-> 0,
     \* history: how the attempts so far ended, and how far the current one got
     nErr |-> 0, nUnsuitable |-> 0, titleOk |-> FALSE, htmlOk |-> FALSE,
     \* history: every response so far was a success whose markup held at least
     \* this.settings.minHeaders headings
     envGood |-> TRUE,
     \* history: the markup bodies delivered so far, and whether the last one came
     \* without parse.text
     bodies |-> 0, noText |-> FALSE,
     \* history: the title the last random-title body carried
     gotTitle |-> <<>>,
     \* history: the markup the last markup body carried
     gotHtml |-> EmptyHtml,
     \* history: the instant and the settings at invocation, the settings last read
     invokedAt |-> 0, atInvoke |-> BlankSettings, used |-> BlankSettings,
     \* handleInsertArticle, lines 87-129: where the handler is ("idle", "fetching",
     \* "exists", "createFolder", "create", "open", "finished"), its locals, the
     \* notices it showed, whether an error left it
     hpc |-> "idle", markdownContent |-> <<>>, cleanedFolder |-> <<>>, fullPath |-> <<>>,
     startNotices |-> 0, noSuitableNotices |-> 0, folderFailNotices |-> 0,
     failNotices |-> 0, createdNotices |-> 0, handlerRaised |-> FALSE,
     \* history: vault calls of the handler that rejected, whether createFolder was
     \* one of them, whether the handler created and opened a file
     persistErrs |-> 0, folderErr |-> FALSE, fileCreated |-> FALSE, fileOpened |-> FALSE]

Init ==
    /\ settings \in [minHeaders : 0..MaxMinHeadersInput, maxRetries : 0..MaxRetriesInput,
                     disallowedHeaders : DisallowedChoices, noteFolder : {<<>>}]
    /\ now = 0
    /\ run = [r \in Runs |-> InitRun]
    /\ changes = 0
    /\ call = NoCall
    /\ vault = EmptyVault

(***************************************************************************)
(* fetchAndProcessRandomWikipediaArticle, as operators on the locals s of  *)
(* one call; cfg is this.settings and t the clock when the step runs.      *)
(***************************************************************************)
LoopContinuesInclusive(found, retries, maxRetries) == ~found /\ retries <= maxRetries

\* line 174
LoopContinues(found, retries, maxRetries) == ~found /\ retries < maxRetries

isSuitableOffByOne(headers, minHeaders) == Len(headers) + 1 >= minHeaders

isSuitableStrict(headers, minHeaders) == Len(headers) > minHeaders

\* line 212
isSuitable(headers, minHeaders) == Len(headers) >= minHeaders

DatePrefixInstantAtInvocation(s, t) == s.invokedAt

\* line 229: the instant window.moment() reads
DatePrefixInstant(s, t) == t

\* lines 176-179: the attempt notice, then the random-title call
StartAttempt(s) ==
    [s EXCEPT !.pc = "titleFetch", !.attemptNotices = @ + 1, !.titleCalls = @ + 1,
              !.inFlight = @ + 1, !.titleOk = FALSE, !.htmlOk = FALSE]

\* lines 228-234
AfterLoop(s, cfg, t) ==
    IF s.foundSuitableArticle
    THEN [s EXCEPT !.pc = "done", !.outcome = "candidate",
                   !.articleData = <<[title |-> s.articleTitle, link |-> s.articleLink,
                                      headers |-> s.parsedHeaders,
                                      datePrefix |-> FormatDate(DatePrefixInstant(s, t))]>>]
    ELSE [s EXCEPT !.pc = "done", !.outcome = "null", !.exhaustedNotices = @ + 1]

\* line 174, entered from the top or after an attempt
WhileHead(s, cfg, t) ==
    LET s1 == [s EXCEPT !.used.maxRetries = cfg.maxRetries]
    IN  IF LoopContinues(s1.foundSuitableArticle, s1.retries, cfg.maxRetries)
        THEN StartAttempt(s1)
        ELSE AfterLoop(s1, cfg, t)

\* the places of the loop body that throw or reject
ThrowSites ==
    {"title-network", "title-status", "title-json", "title-items",
     "html-network", "html-status", "html-json"}

InTryBlockTitleOnly(site) ==
    site \in {"title-network", "title-status", "title-json", "title-items"}

\* lines 178-220: every throw site lies inside the try block
InTryBlock(site) == site \in ThrowSites

CatchErrorUncounted(s) ==
    [s EXCEPT !.pc = "delay", !.errNotices = @ + 1, !.delays = @ + 1]

CatchErrorSilently(s) ==
    [s EXCEPT !.pc = "delay", !.retries = @ + 1, !.delays = @ + 1]

\* lines 220-224: the catch block, up to the await of the timer
CatchError(s) ==
    [s EXCEPT !.pc = "delay", !.errNotices = @ + 1, !.retries = @ + 1, !.delays = @ + 1]

\* an error at a throw site: caught by the loop's try, or out of the function
Throw(s, site) ==
    LET s1 == [s EXCEPT !.inFlight = @ - 1, !.nErr = @ + 1, !.envGood = FALSE]
    IN  IF InTryBlock(site) THEN CatchError(s1)
        ELSE [s1 EXCEPT !.pc = "done", !.outcome = "raised"]

StoreTitleKeepFirst(s, title) ==
    [s EXCEPT !.articleTitle = IF s.articleTitle = <<>> THEN title ELSE s.articleTitle,
              !.articleLink = ArticleLink(title),
              !.titleOk = TRUE, !.htmlCalls = @ + 1, !.requestedPage = title,
              !.pc = "htmlFetch"]

StoreTitleStalePage(s, title) ==
    [s EXCEPT !.articleTitle = title, !.articleLink = ArticleLink(title),
              !.titleOk = TRUE, !.htmlCalls = @ + 1, !.requestedPage = s.articleTitle,
              !.pc = "htmlFetch"]

\* lines 184-196: the title and link are stored, the markup call is issued
StoreTitle(s, title) ==
    [s EXCEPT !.articleTitle = title, !.articleLink = ArticleLink(title),
              !.titleOk = TRUE, !.htmlCalls = @ + 1, !.requestedPage = title,
              !.pc = "htmlFetch"]

EvaluateUnsuitableAsError(s, apiData, cfg) ==
    LET html == TextOrEmpty(apiData)
        headers == parseWikipediaHtml(html, cfg.disallowedHeaders)
        s1 == [s EXCEPT !.inFlight = @ - 1, !.htmlOk = TRUE, !.articleHtml = html,
                        !.parsedHeaders = headers,
                        !.used.disallowedHeaders = cfg.disallowedHeaders,
                        !.used.minHeaders = cfg.minHeaders,
                        !.envGood = @ /\ Len(headers) >= cfg.minHeaders]
    IN  IF isSuitable(headers, cfg.minHeaders)
        THEN [s1 EXCEPT !.foundSuitableArticle = TRUE]
        ELSE CatchError([s1 EXCEPT !.nUnsuitable = @ + 1])

\* lines 202-218: the markup is stored, parsed and evaluated
Evaluate(s, apiData, cfg) ==
    LET html == TextOrEmpty(apiData)
        headers == parseWikipediaHtml(html, cfg.disallowedHeaders)
        s1 == [s EXCEPT !.inFlight = @ - 1, !.htmlOk = TRUE, !.articleHtml = html,
                        !.parsedHeaders = headers,
                        !.used.disallowedHeaders = cfg.disallowedHeaders,
                        !.used.minHeaders = cfg.minHeaders,
                        !.envGood = @ /\ Len(headers) >= cfg.minHeaders]
    IN  IF isSuitable(headers, cfg.minHeaders)
        THEN [s1 EXCEPT !.foundSuitableArticle = TRUE]
        ELSE [s1 EXCEPT !.retries = @ + 1, !.nUnsuitable = @ + 1]

(***************************************************************************)
(* The steps of one call: from one suspension point to the next.           *)
(***************************************************************************)
StepSharedLocals(r, s) ==
    /\ run' = [q \in Runs |->
                  IF q = r THEN s
                  ELSE [run[q] EXCEPT !.retries = s.retries,
                                      !.articleTitle = s.articleTitle,
                                      !.articleLink = s.articleLink]]
    /\ UNCHANGED <<settings, now, changes, call, vault>>

\* the locals of a call belong to that call: a step of one call leaves the
\* other call's locals alone
Step(r, s) ==
    /\ run' = [run EXCEPT ![r] = s]
    /\ UNCHANGED <<settings, now, changes, call, vault>>

\* lines 88-91: the handler shows its notice and calls the function, which runs
\* to its first await
Invoke(r) ==
    /\ run[r].pc = "idle"
    /\ Step(r, WhileHead([InitRun EXCEPT !.invokedAt = now, !.atInvoke = settings,
                                         !.used = settings,
                                         !.hpc = "fetching", !.startNotices = 1],
                         settings, now))

\* line 179: fetch rejects
TitleFetchRejects(r) ==
    /\ run[r].pc = "titleFetch"
    /\ Step(r, Throw(run[r], "title-network"))

\* lines 179-183: fetch resolves; a non-ok status throws, else json() is awaited
TitleResponse(r) ==
    /\ run[r].pc = "titleFetch"
    /\ \E ok \in BOOLEAN :
          Step(r, IF ok THEN [run[r] EXCEPT !.pc = "titleJson"]
                  ELSE Throw(run[r], "title-status"))

\* line 183: json() rejects
TitleJsonRejects(r) ==
    /\ run[r].pc = "titleJson"
    /\ Step(r, Throw(run[r], "title-json"))

\* lines 183-196: json() resolves; items[0].title of an empty list throws
TitleJson(r) ==
    /\ run[r].pc = "titleJson"
    /\ \E body \in TitleBodies :
          Step(r, IF body.items = <<>> THEN Throw(run[r], "title-items")
                  ELSE StoreTitle([run[r] EXCEPT !.gotTitle = body.items[1].title],
                                  body.items[1].title))

\* line 196: fetch rejects
HtmlFetchRejects(r) ==
    /\ run[r].pc = "htmlFetch"
    /\ Step(r, Throw(run[r], "html-network"))

\* lines 196-200
HtmlResponse(r) ==
    /\ run[r].pc = "htmlFetch"
    /\ \E ok \in BOOLEAN :
          Step(r, IF ok THEN [run[r] EXCEPT !.pc = "htmlJson"]
                  ELSE Throw(run[r], "html-status"))

\* line 200: json() rejects
HtmlJsonRejects(r) ==
    /\ run[r].pc = "htmlJson"
    /\ Step(r, Throw(run[r], "html-json"))

\* lines 200-218, then the loop head and what follows it
HtmlJson(r) ==
    /\ run[r].pc = "htmlJson"
    /\ \E apiData \in ApiDatas :
          Step(r, WhileHead(Evaluate([run[r] EXCEPT !.bodies = @ + 1,
                                                    !.noText = HasNoText(apiData),
                                                    !.gotHtml = TextOrEmpty(apiData)],
                                     apiData, settings),
                            settings, now))

\* line 224: the 500 ms timer fires, then the loop head and what follows it
DelayElapses(r) ==
    /\ run[r].pc = "delay"
    /\ Step(r, WhileHead(run[r], settings, now))

(***************************************************************************)
(* RandomWikipediaArticleSettingTab: the onChange handlers.                *)
(***************************************************************************)
Change(new) ==
    /\ changes < MaxSettingChanges
    /\ changes' = changes + 1
    /\ settings' = new
    /\ UNCHANGED <<now, run, call, vault>>

\* lines 325-329
ChangeMinHeaders ==
    \E value \in MinHeadersInputs :
        LET parsedValue == parseInt(value)
        IN  Change([settings EXCEPT !.minHeaders =
                        IF isNaN(parsedValue) THEN DefaultMinHeaders
                        ELSE parsedValue[1]])

\* lines 337-341
ChangeMaxRetries ==
    \E value \in RetriesInputs :
        LET parsedValue == parseInt(value)
        IN  Change([settings EXCEPT !.maxRetries =
                        IF isNaN(parsedValue) THEN DefaultMaxRetries
                        ELSE parsedValue[1]])

\* lines 350-353
ChangeDisallowedHeaders ==
    \E value \in DisallowedChoices :
        Change([settings EXCEPT !.disallowedHeaders = value])

\* lines 364-367
ChangeNoteFolder ==
    \E value \in FolderChoices :
        Change([settings EXCEPT !.noteFolder = trim(value)])

\* the clock advances
Tick ==
    /\ now < MaxNow
    /\ now' = now + 1
    /\ UNCHANGED <<settings, run, changes, call, vault>>

\* one acquisition run, started from the command; the settings tab and the
\* clock act while it is suspended
Next ==
    \/ Invoke("command")
    \/ \E r \in Runs : TitleFetchRejects(r)
    \/ \E r \in Runs : TitleResponse(r)
    \/ \E r \in Runs : TitleJsonRejects(r)
    \/ \E r \in Runs : TitleJson(r)
    \/ \E r \in Runs : HtmlFetchRejects(r)
    \/ \E r \in Runs : HtmlResponse(r)
    \/ \E r \in Runs : HtmlJsonRejects(r)
    \/ \E r \in Runs : HtmlJson(r)
    \/ \E r \in Runs : DelayElapses(r)
    \/ ChangeMinHeaders
    \/ ChangeMaxRetries
    \/ ChangeDisallowedHeaders
    \/ ChangeNoteFolder
    \/ Tick

Spec == Init /\ [][Next]_vars

(***************************************************************************)
(* handleInsertArticle after the function returned: the note is stored in  *)
(* the vault and opened.  Both entry points (command, ribbon icon) run the *)
(* same handler; their runs may overlap.                                   *)
(***************************************************************************)
\* noteFolder.replace(/^\/|\/$/g, ''): one leading and one trailing slash go
StripSlashes(folder) ==
    LET f1 == IF folder # <<>> /\ Head(folder) = "/" THEN Tail(folder) ELSE folder
    IN  IF f1 # <<>> /\ f1[Len(f1)] = "/" THEN SubSeq(f1, 1, Len(f1) - 1) ELSE f1

\* line 95
FileName(articleData) ==
    <<articleData.datePrefix, " Wikipedia Note - ">> \o articleData.title \o <<".md">>

\* the awaits of the handler that can reject
HandlerSites == {"fetch", "exists", "createFolder", "create", "open"}

\* lines 90-128: the try block holds every await of the handler
InHandlerTry(site) == site \in HandlerSites

\* lines 125-128: the catch block of the handler
HandlerCatch(s) == [s EXCEPT !.hpc = "finished", !.failNotices = @ + 1]

CatchFolderErrorGoesOn(s) == [s EXCEPT !.hpc = "create", !.folderFailNotices = @ + 1]

\* lines 107-111: the catch block around createFolder, which returns
CatchFolderError(s) == [s EXCEPT !.hpc = "finished", !.folderFailNotices = @ + 1]

\* a vault call of the handler rejects
HandlerThrow(s, site) ==
    LET s1 == [s EXCEPT !.persistErrs = @ + 1, !.folderErr = @ \/ site = "createFolder"]
    IN  IF site = "createFolder" THEN CatchFolderError(s1)
        ELSE IF InHandlerTry(site) THEN HandlerCatch(s1)
        ELSE [s1 EXCEPT !.hpc = "finished", !.handlerRaised = TRUE]

\* lines 93-102: the note's text and path; with a note folder, adapter.exists is
\* awaited, without one vault.create
PrepareNote(s, cfg, t) ==
    LET articleData == s.articleData[1]
        s1 == [s EXCEPT !.markdownContent = formatMarkdown(articleData, t)]
    IN  IF cfg.noteFolder # <<>>
        THEN [s1 EXCEPT !.cleanedFolder = StripSlashes(cfg.noteFolder),
                        !.fullPath = StripSlashes(cfg.noteFolder) \o <<"/">>
                                         \o FileName(articleData),
                        !.hpc = "exists"]
        ELSE [s1 EXCEPT !.fullPath = FileName(articleData), !.hpc = "create"]

HandlerStep(r, s, v) ==
    /\ run' = [run EXCEPT ![r] = s]
    /\ vault' = v
    /\ UNCHANGED <<settings, now, changes, call>>

\* lines 91-93 and 122-128: the function's promise settles
Resume(r) ==
    /\ run[r].hpc = "fetching"
    /\ run[r].pc = "done"
    /\ HandlerStep(r,
                   CASE run[r].outcome = "candidate" -> PrepareNote(run[r], settings, now)
                     [] run[r].outcome = "null" ->
                            [run[r] EXCEPT !.hpc = "finished", !.noSuitableNotices = @ + 1]
                     [] OTHER -> HandlerCatch(run[r]),
                   vault)

\* lines 102-103: adapter.exists resolves
ExistsResolves(r) ==
    /\ run[r].hpc = "exists"
    /\ HandlerStep(r,
                   [run[r] EXCEPT !.hpc = IF run[r].cleanedFolder \in vault.folders
                                          THEN "create" ELSE "createFolder"],
                   vault)

\* line 102: adapter.exists rejects
ExistsRejects(r) ==
    /\ run[r].hpc = "exists"
    /\ HandlerStep(r, HandlerThrow(run[r], "exists"), vault)

\* line 105: createFolder resolves; it rejects for a folder that exists
CreateFolderResolves(r) ==
    /\ run[r].hpc = "createFolder"
    /\ run[r].cleanedFolder \notin vault.folders
    /\ HandlerStep(r, [run[r] EXCEPT !.hpc = "create"],
                   [vault EXCEPT !.folders = @ \cup {run[r].cleanedFolder}])

\* lines 105-111: createFolder rejects
CreateFolderRejects(r) ==
    /\ run[r].hpc = "createFolder"
    /\ HandlerStep(r, HandlerThrow(run[r], "createFolder"), vault)

\* lines 115-119: vault.create resolves; it rejects for a path that exists
CreateResolves(r) ==
    /\ run[r].hpc = "create"
    /\ \A f \in vault.files : f.path # run[r].fullPath
    /\ HandlerStep(r,
                   [run[r] EXCEPT !.hpc = "open", !.createdNotices = @ + 1,
                                  !.fileCreated = TRUE],
                   [vault EXCEPT !.files = @ \cup {[path |-> run[r].fullPath,
                                                    data |-> run[r].markdownContent]}])

\* line 115: vault.create rejects
CreateRejects(r) ==
    /\ run[r].hpc = "create"
    /\ HandlerStep(r, HandlerThrow(run[r], "create"), vault)

\* line 119: openFile resolves
OpenResolves(r) ==
    /\ run[r].hpc = "open"
    /\ HandlerStep(r, [run[r] EXCEPT !.hpc = "finished", !.fileOpened = TRUE],
                   [vault EXCEPT !.open = @ \cup {run[r].fullPath}])

\* line 119: openFile rejects
OpenRejects(r) ==
    /\ run[r].hpc = "open"
    /\ HandlerStep(r, HandlerThrow(run[r], "open"), vault)

\* values of the "Note Folder" setting when the handler runs
NoteFolders == {<<>>, <<"n">>, <<"/", "n", "/">>}

\* the plugin with settings that stay as loaded; the folder may exist already
InitHandler ==
    /\ settings \in [minHeaders : {0, 1}, maxRetries : {1, 2},
                     disallowedHeaders : {<<>>}, noteFolder : NoteFolders]
    /\ now = 0
    /\ run = [r \in Runs |-> InitRun]
    /\ changes = 0
    /\ call = NoCall
    /\ vault \in {[EmptyVault EXCEPT !.folders = fs] : fs \in {{}, {<<"n">>}}}

\* the command and the ribbon icon, each used once, possibly while the other's
\* run is suspended
NextHandler ==
    \E r \in Runs :
        \/ Invoke(r)
        \/ TitleFetchRejects(r)
        \/ TitleResponse(r)
        \/ TitleJsonRejects(r)
        \/ TitleJson(r)
        \/ HtmlFetchRejects(r)
        \/ HtmlResponse(r)
        \/ HtmlJsonRejects(r)
        \/ HtmlJson(r)
        \/ DelayElapses(r)
        \/ Resume(r)
        \/ ExistsResolves(r)
        \/ ExistsRejects(r)
        \/ CreateFolderResolves(r)
        \/ CreateFolderRejects(r)
        \/ CreateResolves(r)
        \/ CreateRejects(r)
        \/ OpenResolves(r)
        \/ OpenRejects(r)

SpecHandler == InitHandler /\ [][NextHandler]_vars

(***************************************************************************)
(* Two acquisition runs, one from the command and one from the ribbon      *)
(* icon, overlapping in any way, while the "Maximum Retries" field is      *)
(* edited.                                                                 *)
(***************************************************************************)
InitTwoRuns ==
    /\ settings = [minHeaders |-> 1, maxRetries |-> 1, disallowedHeaders |-> <<>>,
                   noteFolder |-> <<>>]
    /\ now = 0
    /\ run = [r \in Runs |-> InitRun]
    /\ changes = 0
    /\ call = NoCall
    /\ vault = EmptyVault

NextTwoRuns ==
    \/ \E r \in Runs :
          \/ Invoke(r)
          \/ TitleFetchRejects(r)
          \/ TitleResponse(r)
          \/ TitleJsonRejects(r)
          \/ TitleJson(r)
          \/ HtmlFetchRejects(r)
          \/ HtmlResponse(r)
          \/ HtmlJsonRejects(r)
          \/ HtmlJson(r)
          \/ DelayElapses(r)
    \/ ChangeMaxRetries

SpecTwoRuns == InitTwoRuns /\ [][NextTwoRuns]_vars

(***************************************************************************)
(* parseWikipediaHtml on its own: one call, on every document of at most   *)
(* MaxHeadings heading elements and every disallowedHeaders setting of at  *)
(* most MaxCfgLen characters.  call holds the arguments and the result.    *)
(***************************************************************************)
SeqsUpTo(S, n) == UNION {[1..k -> S] : k \in 0..n}

\* heading elements as Wikipedia renders them: plain, with an edit section,
\* with nothing but an edit section, with nothing but a blank, with two edit
\* sections
HeadingEls ==
    {HeadingEl(<<"H", "2">>, <<TextNode(<<"a">>)>>),
     HeadingEl(<<"H", "2">>, <<TextNode(<<"A">>)>>),
     HeadingEl(<<"H", "3">>, <<TextNode(<<"a">>)>>),
     HeadingEl(<<"H", "2">>, <<TextNode(<<" ", "a", " ">>), EditNode>>),
     HeadingEl(<<"H", "4">>, <<EditNode>>),
     HeadingEl(<<"H", "2">>, <<TextNode(<<" ">>)>>),
     HeadingEl(<<"H", "2">>, <<TextNode(<<"b">>), EditNode, EditNode>>)}

\* a heading outside the .mw-parser-output element
StrayEl == HeadingEl(<<"H", "2">>, <<TextNode(<<"c">>)>>)

ParseDocs ==
    {Html(FALSE, <<>>, els) : els \in SeqsUpTo(HeadingEls, MaxHeadings)}
        \cup {Html(TRUE, els, <<StrayEl>> \o els) : els \in SeqsUpTo(HeadingEls, MaxHeadings)}

CfgAlphabet == {"A", " ", ","}

IdleWorld ==
    /\ settings = BlankSettings
    /\ now = 0
    /\ run = [r \in Runs |-> InitRun]
    /\ changes = 0
    /\ vault = EmptyVault

InitParse ==
    /\ IdleWorld
    /\ call \in [fn : {"parseWikipediaHtml"}, htmlContent : ParseDocs,
                 disallowedHeaders : SeqsUpTo(CfgAlphabet, MaxCfgLen),
                 done : {FALSE}, ret : {<<>>}]

\* lines 237-272; the setting is read through this.settings at line 247
CallParse ==
    /\ call.fn = "parseWikipediaHtml"
    /\ ~call.done
    /\ call' = [call EXCEPT !.done = TRUE,
                            !.ret = parseWikipediaHtml(call.htmlContent,
                                                       call.disallowedHeaders)]
    /\ UNCHANGED <<settings, now, run, changes, vault>>

NextParse == CallParse

SpecParse == InitParse /\ [][NextParse]_vars

(***************************************************************************)
(* formatMarkdown on its own: one call, on every candidate of at most      *)
(* MaxFmtHeaders headers, at every instant.                                *)
(***************************************************************************)
\* header texts: empty, plain, with a blank, and with a line break inside
HeaderTexts == {<<>>, <<"a">>, <<"A", " ", "b">>, <<"a", "\n", "#", " ", "b">>}
HeaderRecords == [level : {2, 3, 4}, text : HeaderTexts]

Candidates ==
    {[title |-> t, link |-> ArticleLink(t), headers |-> hs, datePrefix |-> FormatDate(d)] :
        t \in Titles, hs \in SeqsUpTo(HeaderRecords, MaxFmtHeaders), d \in 0..MaxNow}

InitFormat ==
    /\ IdleWorld
    /\ call \in [fn : {"formatMarkdown"}, articleData : Candidates, at : 0..MaxNow,
                 done : {FALSE}, ret : {<<>>}]

\* lines 274-301
CallFormat ==
    /\ call.fn = "formatMarkdown"
    /\ ~call.done
    /\ call' = [call EXCEPT !.done = TRUE, !.ret = formatMarkdown(call.articleData, call.at)]
    /\ UNCHANGED <<settings, now, run, changes, vault>>

NextFormat == CallFormat

SpecFormat == InitFormat /\ [][NextFormat]_vars

(***************************************************************************)
(* Properties of the acquisition loop, checked under Spec.                 *)
(***************************************************************************)
\* C1: a candidate is returned only from an attempt whose two network calls
\* completed without error and whose headings passed the suitability test: the
\* returned headers number at least the minHeaders the test read; a finished
\* call that returned no candidate returned null, and a call that returned null
\* after an evaluation had fewer headers than minHeaders.
C1_CandidateOnlyWhenSuitable ==
    \A r \in Runs :
        /\ run[r].outcome = "candidate" =>
              /\ run[r].pc = "done"
              /\ run[r].titleOk /\ run[r].htmlOk
              /\ run[r].foundSuitableArticle
              /\ Len(run[r].articleData) = 1
              /\ Len(run[r].articleData[1].headers) >= run[r].used.minHeaders
        /\ (run[r].pc = "done" /\ run[r].outcome # "candidate") =>
              /\ run[r].outcome = "null"
              /\ run[r].articleData = <<>>
              /\ run[r].htmlOk => Len(run[r].parsedHeaders) < run[r].used.minHeaders

\* a candidate with exactly minHeaders >= 1 headers, returned after an
\* unsuitable attempt
C1_Witness ==
    \E r \in Runs :
        /\ run[r].outcome = "candidate"
        /\ run[r].used.minHeaders >= 1
        /\ Len(run[r].articleData[1].headers) = run[r].used.minHeaders
        /\ run[r].nUnsuitable >= 1

\* C2: a call made while maxRetries is 0 returns null at once, having issued
\* neither the random-title call nor the markup call.
C2_ZeroRetriesNoFetch ==
    \A r \in Runs :
        (run[r].pc # "idle" /\ run[r].atInvoke.maxRetries = 0) =>
            /\ run[r].pc = "done"
            /\ run[r].outcome = "null"
            /\ run[r].titleCalls = 0
            /\ run[r].htmlCalls = 0
            /\ run[r].attemptNotices = 0

C2_Witness ==
    \E r \in Runs :
        /\ run[r].pc = "done"
        /\ run[r].atInvoke.maxRetries = 0
        /\ run[r].exhaustedNotices = 1

\* C3: no error of an attempt leaves the function: whatever the attempts did, a
\* finished call returned a candidate or null.
C3_NoErrorEscapes ==
    \A r \in Runs :
        /\ run[r].outcome # "raised"
        /\ run[r].pc = "done" => run[r].outcome \in {"candidate", "null"}

\* a call that finished after two attempts ended in an error
C3_Witness ==
    \E r \in Runs : run[r].pc = "done" /\ run[r].nErr >= 2

\* C4: the attempts started in a run never exceed the run's maxRetries, and null is
\* returned only when exactly maxRetries attempts ended in error or unsuitability.
C4_AttemptsBoundedByMaxRetries ==
    \A r \in Runs :
        /\ run[r].attemptNotices <= run[r].atInvoke.maxRetries
        /\ run[r].outcome = "null" =>
              /\ run[r].retries = run[r].atInvoke.maxRetries
              /\ run[r].nErr + run[r].nUnsuitable = run[r].atInvoke.maxRetries

\* C5: when every response is a success whose markup holds at least minHeaders
\* headings, the first attempt is accepted: one random-title call, one markup
\* call, the attempt counter still 0, no error notice, no exhaustion notice.
C5_FirstAttemptAccepted ==
    \A r \in Runs :
        (run[r].envGood /\ run[r].attemptNotices >= 1) =>
            /\ run[r].attemptNotices = 1
            /\ run[r].titleCalls = 1
            /\ run[r].htmlCalls <= 1
            /\ run[r].retries = 0
            /\ run[r].errNotices = 0
            /\ run[r].exhaustedNotices = 0
            /\ run[r].pc = "done" => (run[r].outcome = "candidate" /\ run[r].htmlCalls = 1)

C5_Witness ==
    \E r \in Runs :
        /\ run[r].pc = "done"
        /\ run[r].envGood
        /\ run[r].outcome = "candidate"
        /\ Len(run[r].articleData[1].headers) >= 1

\* C6: when the first k-1 attempts ended in an error and the k-th was accepted,
\* the call returns having made k attempts (the last attempt notice reads k, k
\* random-title calls) and having shown k-1 error notices; retries is k-1.
C6_ErrorsThenSuccess ==
    \A r \in Runs :
        (run[r].outcome = "candidate" /\ run[r].nUnsuitable = 0) =>
            /\ run[r].attemptNotices = run[r].nErr + 1
            /\ run[r].titleCalls = run[r].nErr + 1
            /\ run[r].errNotices = run[r].nErr
            /\ run[r].retries = run[r].nErr

C6_Witness ==
    \E r \in Runs :
        /\ run[r].outcome = "candidate"
        /\ run[r].nUnsuitable = 0
        /\ run[r].nErr >= 1

\* C8: the configuration is a snapshot for one run: the retry bound, the
\* suitability threshold and the disallowed headers a run reads are those in
\* force when it was invoked.
C8_ConfigIsSnapshot ==
    \A r \in Runs :
        run[r].pc # "idle" =>
            /\ run[r].used.maxRetries = run[r].atInvoke.maxRetries
            /\ run[r].used.minHeaders = run[r].atInvoke.minHeaders
            /\ run[r].used.disallowedHeaders = run[r].atInvoke.disallowedHeaders

\* C9: the date of a returned candidate is the clock's date at the step that
\* accepts, not the date at invocation.
C9_DateStampedAtAcceptance ==
    [][\A r \in Runs :
          (run[r].outcome = "pending" /\ run'[r].outcome = "candidate") =>
              run'[r].articleData[1].datePrefix = FormatDate(now)]_vars

\* a candidate accepted after a failed attempt, on a later day than the invocation
C9_Witness ==
    \E r \in Runs :
        /\ run[r].outcome = "candidate"
        /\ run[r].nErr >= 1
        /\ run[r].articleData[1].datePrefix # FormatDate(run[r].invokedAt)

\* the call is suspended in a network call
InAttempt(s) == s.pc \in {"titleFetch", "titleJson", "htmlFetch", "htmlJson"}

\* C13: an attempt that ends in an error increments the attempt counter by exactly
\* one and shows exactly one error notice, then waits in the delay before the next
\* attempt starts or the loop exits; it is not evaluated and nothing is raised.
C13_ErrorCountsNoticesDelays ==
    [][\A r \in Runs :
          /\ (run'[r].nErr # run[r].nErr) =>
                /\ InAttempt(run[r])
                /\ run'[r].nErr = run[r].nErr + 1
                /\ run'[r].retries = run[r].retries + 1
                /\ run'[r].errNotices = run[r].errNotices + 1
                /\ run'[r].delays = run[r].delays + 1
                /\ run'[r].pc = "delay"
                /\ run'[r].attemptNotices = run[r].attemptNotices
                /\ run'[r].titleCalls = run[r].titleCalls
                /\ run'[r].bodies = run[r].bodies
                /\ run'[r].nUnsuitable = run[r].nUnsuitable
                /\ run'[r].parsedHeaders = run[r].parsedHeaders
                /\ ~run'[r].htmlOk
                /\ run'[r].outcome = "pending"
          /\ (run[r].pc = "delay" /\ run'[r].pc # "delay") =>
                /\ run'[r].pc \in {"titleFetch", "done"}
                /\ run'[r].retries = run[r].retries
                /\ run'[r].errNotices = run[r].errNotices
                /\ run'[r].outcome \in {"pending", "null"}]_vars

\* a run waiting in its second delay, the second error being one of the markup call
C13_Witness ==
    \E r \in Runs :
        /\ run[r].pc = "delay"
        /\ run[r].nErr = 2
        /\ run[r].delays = 2
        /\ run[r].titleOk

\* C14: an attempt whose two calls succeeded and whose headings number fewer than
\* minHeaders increments the attempt counter by exactly one, shows no error notice
\* and starts no delay: the same step starts the next attempt or leaves the loop.
C14_UnsuitableCountsNoDelay ==
    [][\A r \in Runs :
          (/\ run'[r].bodies = run[r].bodies + 1
           /\ Len(run'[r].parsedHeaders) < settings.minHeaders) =>
              /\ run'[r].retries = run[r].retries + 1
              /\ run'[r].nUnsuitable = run[r].nUnsuitable + 1
              /\ run'[r].errNotices = run[r].errNotices
              /\ run'[r].delays = run[r].delays
              /\ run'[r].nErr = run[r].nErr
              /\ run'[r].pc \in {"titleFetch", "done"}
              /\ run'[r].pc = "titleFetch" =>
                    /\ run'[r].attemptNotices = run[r].attemptNotices + 1
                    /\ run'[r].titleCalls = run[r].titleCalls + 1
              /\ run'[r].pc = "done" =>
                    /\ run'[r].outcome = "null"
                    /\ run'[r].exhaustedNotices = run[r].exhaustedNotices + 1]_vars

\* a second attempt under way right after an unsuitable first one
C14_Witness ==
    \E r \in Runs :
        /\ run[r].pc = "titleFetch"
        /\ run[r].nUnsuitable = 1
        /\ run[r].nErr = 0
        /\ run[r].attemptNotices = 2
        /\ run[r].delays = 0

\* C15: the attempts of a run are strictly sequential: at most one network call is
\* outstanding; the markup call is issued only after the random-title call of the
\* same attempt succeeded and asks for the title it returned; an evaluation follows
\* both calls; an attempt starts only when every earlier attempt has ended.
C15_StrictlySequential ==
    \A r \in Runs :
        /\ run[r].inFlight = IF InAttempt(run[r]) THEN 1 ELSE 0
        /\ run[r].titleCalls = run[r].attemptNotices
        /\ run[r].htmlCalls <= run[r].titleCalls
        /\ run[r].bodies <= run[r].htmlCalls
        /\ run[r].pc \in {"htmlFetch", "htmlJson"} =>
              /\ run[r].titleOk
              /\ run[r].requestedPage = run[r].articleTitle
        /\ run[r].htmlOk => (run[r].titleOk /\ run[r].requestedPage = run[r].articleTitle)
        /\ run[r].attemptNotices
              = run[r].nErr + run[r].bodies + (IF InAttempt(run[r]) THEN 1 ELSE 0)

\* the markup call of a second attempt, for a title other than the first attempt's
C15_Witness ==
    \E r \in Runs :
        /\ run[r].pc = "htmlJson"
        /\ run[r].attemptNotices = 2
        /\ run[r].htmlCalls = 2
        /\ run[r].bodies = 1
        /\ run[r].requestedPage = <<"A", " ", "b">>

\* C20: a successful markup response without text (no parse, or parse.text absent
\* or empty) is not an error: it is evaluated as a page with zero headings, so it
\* is retried as unsuitable, with no error notice and no delay, when minHeaders is
\* at least 1, and accepted with an empty header list when minHeaders is 0.
C20_MissingTextIsZeroHeadings ==
    [][\A r \in Runs :
          (run'[r].bodies = run[r].bodies + 1 /\ run'[r].noText) =>
              /\ run'[r].parsedHeaders = <<>>
              /\ run'[r].articleHtml = EmptyHtml
              /\ run'[r].nErr = run[r].nErr
              /\ run'[r].errNotices = run[r].errNotices
              /\ run'[r].delays = run[r].delays
              /\ run'[r].pc # "delay"
              /\ settings.minHeaders >= 1 =>
                    /\ run'[r].retries = run[r].retries + 1
                    /\ run'[r].nUnsuitable = run[r].nUnsuitable + 1
                    /\ run'[r].outcome # "candidate"
              /\ settings.minHeaders = 0 =>
                    /\ run'[r].retries = run[r].retries
                    /\ run'[r].outcome = "candidate"
                    /\ run'[r].articleData[1].headers = <<>>]_vars

\* a candidate with no headers accepted from a response without text, after an
\* earlier response without text was retried as unsuitable
C20_Witness ==
    \E r \in Runs :
        /\ run[r].outcome = "candidate"
        /\ run[r].noText
        /\ run[r].articleData[1].headers = <<>>
        /\ run[r].nUnsuitable = 1
        /\ run[r].errNotices = 0

\* C21: the title, link and headers of a returned candidate come from the accepting
\* attempt alone: the title is the one the attempt's random-title body carried, the
\* headers are those parsed from the markup the attempt's markup body carried, and
\* the link is the wiki address followed by the encoded returned title; nothing an
\* earlier attempt stored appears in the candidate.
C21_CandidateFromAcceptingAttempt ==
    /\ [](\A r \in Runs :
             run[r].outcome = "candidate" =>
                 /\ run[r].titleOk /\ run[r].htmlOk
                 /\ run[r].articleData[1].title = run[r].gotTitle
                 /\ run[r].articleData[1].link
                       = <<"https://en.wikipedia.org/wiki/">>
                             \o encodeURIComponent(run[r].articleData[1].title)
                 /\ run[r].articleData[1].headers
                       = parseWikipediaHtml(run[r].gotHtml, run[r].used.disallowedHeaders))
    /\ [][\A r \in Runs :
             (run[r].outcome = "pending" /\ run'[r].outcome = "candidate") =>
                 /\ run[r].pc = "htmlJson"
                 /\ run'[r].bodies = run[r].bodies + 1
                 /\ run'[r].gotTitle = run[r].gotTitle
                 /\ run'[r].articleData[1].title = run[r].requestedPage
                 /\ run'[r].articleData[1].headers
                       = parseWikipediaHtml(run'[r].gotHtml, settings.disallowedHeaders)]_vars

\* a candidate for "A b" with headers, returned after an unsuitable attempt had
\* stored its title, link, markup and headers
C21_Witness ==
    \E r \in Runs :
        /\ run[r].outcome = "candidate"
        /\ run[r].nUnsuitable >= 1
        /\ run[r].attemptNotices = 2
        /\ run[r].articleData[1].title = <<"A", " ", "b">>
        /\ run[r].articleData[1].link
              = <<"https://en.wikipedia.org/wiki/", "A", "%", "2", "0", "b">>
        /\ run[r].articleData[1].headers # <<>>

\* C4 and C8 while the settings tab has not been used: the run's bound is the one
\* at invocation.
AttemptsBoundedWhileSettingsUnchanged ==
    changes = 0 => (C4_AttemptsBoundedByMaxRetries /\ C8_ConfigIsSnapshot)

\* every network call and every delay of a started run eventually completes
FairSpec ==
    Spec /\ \A r \in Runs :
               WF_vars(\/ TitleFetchRejects(r) \/ TitleResponse(r)
                       \/ TitleJsonRejects(r) \/ TitleJson(r)
                       \/ HtmlFetchRejects(r) \/ HtmlResponse(r)
                       \/ HtmlJsonRejects(r) \/ HtmlJson(r)
                       \/ DelayElapses(r))

\* under FairSpec a started run returns
RunTerminates == \A r \in Runs : (run[r].pc # "idle") ~> (run[r].pc = "done")

(***************************************************************************)
(* Properties of overlapping runs, checked under SpecTwoRuns.              *)
(***************************************************************************)
\* the attempt counter of a run counts its own attempts that were not accepted,
\* and the candidate it returns is built from the bodies delivered to that run
OwnAttemptsOwnResponses(r) ==
    /\ run[r].retries = run[r].nErr + run[r].nUnsuitable
    /\ run[r].retries + (IF InAttempt(run[r]) \/ run[r].foundSuitableArticle THEN 1 ELSE 0)
          = run[r].attemptNotices
    /\ run[r].outcome = "candidate" =>
          /\ run[r].articleData[1].title = run[r].gotTitle
          /\ run[r].articleData[1].link = ArticleLink(run[r].gotTitle)
          /\ run[r].articleData[1].headers
                = parseWikipediaHtml(run[r].articleHtml, run[r].used.disallowedHeaders)

\* C16: two overlapping runs share no loop state: each run's attempt counter counts
\* only its own attempts that were not accepted, each run makes at most the
\* maxRetries of its invocation attempts, and the candidate a run returns is built
\* from that run's own responses.
C16_RunsShareNoLoopState ==
    (\A q \in Runs : run[q].pc # "idle") =>
        \A r \in Runs :
            /\ OwnAttemptsOwnResponses(r)
            /\ run[r].attemptNotices <= run[r].atInvoke.maxRetries

\* C16 without the bound on the attempts: the counters and the candidate of a run
\* are its own, and a step of one run leaves the other run as it was.
C16_LocalsAreOwn ==
    /\ [](\A r \in Runs : OwnAttemptsOwnResponses(r))
    /\ [][\A r \in Runs : (run'[r] # run[r]) => (\A q \in Runs \ {r} : run'[q] = run[q])]_vars

\* both runs returned a candidate, for different titles, one after a failed attempt
C16_Witness ==
    /\ run["command"].outcome = "candidate"
    /\ run["ribbon"].outcome = "candidate"
    /\ run["command"].articleData[1].title # run["ribbon"].articleData[1].title
    /\ run["command"].retries = 1
    /\ run["ribbon"].retries = 0

(***************************************************************************)
(* Properties of handleInsertArticle, checked under SpecHandler.           *)
(***************************************************************************)
\* C12: a folder-creation, file-creation or open failure after a candidate was
\* accepted is shown as a failure notice and never leaves the handler; after a
\* failed folder creation the handler creates and opens no file; the failing step
\* changes neither the settings, nor the vault, nor the other entry point's run,
\* nor the loop state of its own run.
C12_PersistenceFailureSurfaced ==
    /\ [](\A r \in Runs :
             /\ ~run[r].handlerRaised
             /\ run[r].failNotices + run[r].folderFailNotices = run[r].persistErrs
             /\ run[r].persistErrs >= 1 =>
                   /\ run[r].hpc = "finished"
                   /\ run[r].outcome = "candidate"
                   /\ ~run[r].fileOpened
             /\ run[r].folderErr =>
                   /\ run[r].folderFailNotices = 1
                   /\ ~run[r].fileCreated
                   /\ run[r].createdNotices = 0)
    /\ [][\A r \in Runs :
             (run'[r].persistErrs # run[r].persistErrs) =>
                 /\ run'[r].persistErrs = run[r].persistErrs + 1
                 /\ settings' = settings
                 /\ vault' = vault
                 /\ \A q \in Runs \ {r} : run'[q] = run[q]
                 /\ run'[r].pc = run[r].pc
                 /\ run'[r].retries = run[r].retries
                 /\ run'[r].outcome = run[r].outcome
                 /\ run'[r].articleData = run[r].articleData]_vars

\* the command's handler failed to create the folder, the ribbon's handler then
\* created the folder and the file and opened it
C12_Witness ==
    /\ run["command"].folderErr
    /\ run["command"].hpc = "finished"
    /\ run["ribbon"].fileOpened
    /\ run["ribbon"].cleanedFolder = <<"n">>
    /\ vault.folders = {<<"n">>}
    /\ \E f \in vault.files : f.path = run["ribbon"].fullPath /\ f.path \in vault.open

(***************************************************************************)
(* Properties of parseWikipediaHtml, checked under SpecParse.              *)
(***************************************************************************)
Range(f) == {f[i] : i \in DOMAIN f}

\* the exclusion set of a disallowedHeaders setting: its comma-separated
\* entries, trimmed and lower-cased, without the empty entry
ExclusionSet(disallowedHeaders) ==
    {toLowerCase(trim(e)) : e \in Range(split(disallowedHeaders, ","))} \ {<<>>}

\* C7: the headers parseWikipediaHtml returns hold no two elements with the same
\* (level, text) pair and no element whose lower-cased text is in the exclusion
\* set of the disallowedHeaders setting.
C7_NoDuplicateNoExcluded ==
    (call.fn = "parseWikipediaHtml" /\ call.done) =>
        /\ \A i, j \in 1..Len(call.ret) :
              (call.ret[i].level = call.ret[j].level /\ call.ret[i].text = call.ret[j].text)
                  => i = j
        /\ \A i \in 1..Len(call.ret) :
              toLowerCase(call.ret[i].text) \notin ExclusionSet(call.disallowedHeaders)

\* a document of three headings, one excluded by an entry that needed trimming and
\* lower-casing, one a repeat of a kept heading
C7_Witness ==
    /\ call.fn = "parseWikipediaHtml"
    /\ call.done
    /\ Len(headingElements(call.htmlContent)) = 3
    /\ Len(call.ret) = 1
    /\ call.ret[1].text = <<"b", "[", "edit", "]">>
    /\ call.disallowedHeaders = <<" ", "A">>
    /\ \E i \in 1..3 : HeadingText(headingElements(call.htmlContent)[i]) = <<"A">>

\* the (level, text) pairs of the selected heading elements, in document order
HeadingPairs(doc) ==
    [i \in 1..Len(headingElements(doc)) |->
        [level |-> HeadingLevel(headingElements(doc)[i].tagName),
         text |-> HeadingText(headingElements(doc)[i])]]

\* the elements of s that no earlier element of s equals, in the order of s
FirstOccurrences(s) ==
    LET IsFirst(i) == \A j \in 1..(i - 1) : s[j] # s[i]
        idx == SelectSeq([i \in 1..Len(s) |-> i], IsFirst)
    IN  [k \in 1..Len(idx) |-> s[idx[k]]]

\* C17: parseWikipediaHtml returns exactly the headings that remain after dropping
\* the headings whose lower-cased text is in the exclusion set and then keeping the
\* first occurrence of each (level, text) pair, compared case-sensitively, in
\* document order; two same-level headings whose texts differ only in case are
\* both kept.
C17_ExcludeThenFirstOccurrence ==
    (call.fn = "parseWikipediaHtml" /\ call.done) =>
        LET NotExcluded(p) == toLowerCase(p.text) \notin ExclusionSet(call.disallowedHeaders)
            pairs == HeadingPairs(call.htmlContent)
        IN  /\ call.ret = FirstOccurrences(SelectSeq(pairs, NotExcluded))
            /\ \A i, j \in 1..Len(pairs) :
                  (/\ NotExcluded(pairs[i])
                   /\ pairs[i].level = pairs[j].level
                   /\ pairs[i].text # pairs[j].text
                   /\ toLowerCase(pairs[i].text) = toLowerCase(pairs[j].text))
                      => (pairs[i] \in Range(call.ret) /\ pairs[j] \in Range(call.ret))

\* "a", "A" and again "a" at level 2 with nothing excluded: "a" and "A" are kept
C17_Witness ==
    /\ call.fn = "parseWikipediaHtml"
    /\ call.done
    /\ call.disallowedHeaders = <<",">>
    /\ HeadingPairs(call.htmlContent)
           = <<[level |-> 2, text |-> <<"a">>], [level |-> 2, text |-> <<"A">>],
               [level |-> 2, text |-> <<"a">>]>>
    /\ call.ret = <<[level |-> 2, text |-> <<"a">>], [level |-> 2, text |-> <<"A">>]>>

\* the text of a heading element without any of its edit-section sub-elements
IsTextNode(node) == ~node.edit

TextWithoutEditSections(el) == trim(textContent(SelectSeq(el.nodes, IsTextNode)))

\* C18: whatever the number of edit-section sub-elements of a heading element, the
\* recorded text holds none of their text: every recorded text is the trimmed text
\* of a selected heading element without its edit sections.
C18_NoEditSectionText ==
    (call.fn = "parseWikipediaHtml" /\ call.done) =>
        \A i \in 1..Len(call.ret) :
            \E el \in Range(headingElements(call.htmlContent)) :
                /\ HeadingLevel(el.tagName) = call.ret[i].level
                /\ TextWithoutEditSections(el) = call.ret[i].text

\* the number of elements of s that satisfy Test
Count(s, Test(_)) == Len(SelectSeq(s, Test))

\* C19: a heading whose text is empty after trimming is not discarded: at each
\* level, when the document has such a heading the result holds exactly one record
\* of that level with the empty text, in the place of the first of them, and the
\* record counts toward the number of headings; without one it holds none.
C19_EmptyTextHeadingKept ==
    (call.fn = "parseWikipediaHtml" /\ call.done) =>
        \A L \in {2, 3, 4} :
            LET IsEmptyAtL(p) == p.level = L /\ p.text = <<>>
                pairs == HeadingPairs(call.htmlContent)
            IN  IF \E i \in 1..Len(pairs) : IsEmptyAtL(pairs[i])
                THEN /\ Count(call.ret, IsEmptyAtL) = 1
                     /\ isSuitable(call.ret, 1)
                     /\ LET first == CHOOSE i \in 1..Len(pairs) :
                                         IsEmptyAtL(pairs[i])
                                             /\ \A j \in 1..(i - 1) : ~IsEmptyAtL(pairs[j])
                             at == CHOOSE k \in 1..Len(call.ret) : IsEmptyAtL(call.ret[k])
                         IN  SubSeq(call.ret, 1, at - 1)
                                 = parseWikipediaHtml(
                                       Html(FALSE, <<>>,
                                            SubSeq(headingElements(call.htmlContent), 1, first - 1)),
                                       call.disallowedHeaders)
                ELSE Count(call.ret, IsEmptyAtL) = 0

\* two empty headings at level 4 and one at level 2, with a setting that holds
\* empty entries: one record per level is returned
C19_Witness ==
    /\ call.fn = "parseWikipediaHtml"
    /\ call.done
    /\ call.disallowedHeaders = <<",", " ">>
    /\ HeadingPairs(call.htmlContent)
           = <<[level |-> 4, text |-> <<>>], [level |-> 2, text |-> <<>>],
               [level |-> 4, text |-> <<>>]>>
    /\ call.ret = <<[level |-> 4, text |-> <<>>], [level |-> 2, text |-> <<>>]>>

(***************************************************************************)
(* Properties of formatMarkdown, checked under SpecFormat.                 *)
(***************************************************************************)
\* the lines of a text
Lines(text) == split(text, "\n")

\* a line that opens with a heading marker: one to six "#", then a blank
IsHeadingLine(line) ==
    \E n \in 1..6 :
        /\ Len(line) > n
        /\ \A i \in 1..n : line[i] = "#"
        /\ line[n + 1] = " "

TitleLine(title) == <<"#", " ">> \o title \o <<" ", "#", "wikipedia">>

\* C10: for a candidate without headers the note holds the placeholder line and
\* no heading marker: its only heading line is the title line, and no "#" follows
\* that line.
C10_EmptyHeadersPlaceholder ==
    (call.fn = "formatMarkdown" /\ call.done /\ call.articleData.headers = <<>>) =>
        LET lines == Lines(call.ret)
            title == TitleLine(call.articleData.title)
        IN  /\ \E i \in 1..Len(lines) : lines[i] = <<Placeholder>>
            /\ \E i \in 1..Len(lines) :
                  /\ lines[i] = title
                  /\ \A j \in 1..Len(lines) : IsHeadingLine(lines[j]) => j = i
                  /\ \A j \in (i + 1)..Len(lines) :
                        \A k \in 1..Len(lines[j]) : lines[j][k] # "#"

C10_Witness ==
    /\ call.fn = "formatMarkdown"
    /\ call.done
    /\ call.articleData.headers = <<>>
    /\ call.articleData.title = <<"A", " ", "b">>
    /\ Len(Lines(call.ret)) = 13

\* the lines that follow the title line
AfterTitle(text, title) ==
    LET lines == Lines(text)
        i == CHOOSE j \in 1..Len(lines) :
                 lines[j] = TitleLine(title) /\ \A k \in 1..(j - 1) : lines[k] # TitleLine(title)
    IN  SubSeq(lines, i + 1, Len(lines))

\* the heading line of one header: level "#", a blank, the text
ExpectedHeaderLine(h) == repeat("#", h.level) \o <<" ">> \o h.text

SectionsLine == <<"#", "#", " ", "Sections:">>

\* every heading line but the first is followed by an empty line
HeaderLinesFollowedByBlank(after, first) ==
    \A p \in first..Len(after) :
        IsHeadingLine(after[p]) => (p < Len(after) /\ after[p + 1] = <<>>)

\* C11 as claimed: for a candidate with headers, the heading lines after the title
\* line are exactly the headers' lines, in order, each followed by an empty line.
C11_OnlyHeaderLines ==
    (call.fn = "formatMarkdown" /\ call.done /\ call.articleData.headers # <<>>) =>
        LET after == AfterTitle(call.ret, call.articleData.title)
            hs == call.articleData.headers
        IN  /\ SelectSeq(after, IsHeadingLine) = [k \in 1..Len(hs) |-> ExpectedHeaderLine(hs[k])]
            /\ HeaderLinesFollowedByBlank(after, 1)

NoLineBreak(h) == \A k \in 1..Len(h.text) : h.text[k] # "\n"

\* C11, amended: for a candidate with headers whose texts hold no line break, the
\* heading lines after the title line are the fixed "## Sections:" line and then
\* exactly the headers' lines, in order, each header line followed by an empty line.
C11_SectionsThenHeaderLines ==
    (/\ call.fn = "formatMarkdown" /\ call.done /\ call.articleData.headers # <<>>
     /\ \A k \in 1..Len(call.articleData.headers) : NoLineBreak(call.articleData.headers[k])) =>
        LET after == AfterTitle(call.ret, call.articleData.title)
            hs == call.articleData.headers
        IN  /\ SelectSeq(after, IsHeadingLine)
                  = <<SectionsLine>> \o [k \in 1..Len(hs) |-> ExpectedHeaderLine(hs[k])]
            /\ after[2] = SectionsLine
            /\ HeaderLinesFollowedByBlank(after, 3)

\* two headers of different levels, one with an empty text
C11_Witness ==
    /\ call.fn = "formatMarkdown"
    /\ call.done
    /\ Len(call.articleData.headers) = 2
    /\ call.articleData.headers[1] = [level |-> 3, text |-> <<"A", " ", "b">>]
    /\ call.articleData.headers[2] = [level |-> 4, text |-> <<>>]
    /\ Len(SelectSeq(Lines(call.ret), IsHeadingLine)) = 4

====
